---- MODULE Spec2Model ----
(***************************************************************************)
(* Model of src/myapp.py: a FastAPI task service over one in-memory dict   *)
(* (tasks_db) and one id counter (task_id_counter).                        *)
(*                                                                         *)
(* Spec      one action per HTTP handler, each a whole request/response.   *)
(* SpecConc  the same handlers statement by statement, as coroutines       *)
(*           scheduled by the single asyncio event loop.                   *)
(***************************************************************************)
EXTENDS Integers, Sequences, FiniteSets

(* ------------------------------ bounds --------------------------------- *)
\* Largest id create_task issues in Spec and SpecConc (the code's counter is
\* unbounded).
MaxId == 2
\* Largest id create_task issues in SpecClock.
MaxClockId == 1
\* In SpecClock the clock read datetime.now() returns any value in 0..MaxTime.
MaxTime == 1
\* Number of coroutines the event loop holds in SpecConc.
MaxReqs == 2

(* --------------------------- program constants ------------------------- *)
HTTP_200_OK == 200
HTTP_201_CREATED == 201
HTTP_204_NO_CONTENT == 204
HTTP_400_BAD_REQUEST == 400
HTTP_404_NOT_FOUND == 404
\* FastAPI answers a body that fails the pydantic model of the handler's
\* parameter with 422; value_error_handler is never consulted for it.
HTTP_422_UNPROCESSABLE_ENTITY == 422

\* class TaskStatus(str, Enum)
PENDING == "pending"
IN_PROGRESS == "in_progress"
COMPLETED == "completed"
CANCELLED == "cancelled"
TaskStatus == {PENDING, IN_PROGRESS, COMPLETED, CANCELLED}

(* ------------------------------ inputs --------------------------------- *)
\* A field the JSON body does not carry.
Absent == "<absent>"
\* Description strings a client sends: the empty string and a non-empty one.
Descriptions == {"", "Write docs"}
\* Status strings a client sends: the four enum values and one that is none.
StatusInputs == TaskStatus \cup {"done"}
\* Path parameters: every id that can be issued, and one that never is.
TaskIds == 1..(MaxId + 1)
\* Values datetime.now() returns. It is the local wall clock: nothing orders
\* two reads of it.
Clock == 0..MaxTime
\* Spec and SpecConc keep the clock at one reading; SpecClock varies it.
FrozenClock == {0}
NoBody == [description |-> Absent, status |-> Absent]
CreateBodies == [description : Descriptions \cup {Absent}, status : StatusInputs \cup {Absent}]
UpdateBodies == [description : {Absent}, status : StatusInputs \cup {Absent}]
\* SpecClock: bodies of POST /tasks with one description, every status.
ClockCreateBodies == {b \in CreateBodies : b.description # ""}

(* ------------------------- Python dict (ordered) ----------------------- *)
\* A dict is the sequence of its entries in insertion order.
\* k in d
DictHas(d, k) == \E i \in 1..Len(d) : d[i].key = k
\* d[k]
DictGet(d, k) == d[CHOOSE i \in 1..Len(d) : d[i].key = k].value
DictSetAppend(d, k, v) == Append(d, [key |-> k, value |-> v])
\* d[k] = v
DictSet(d, k, v) ==
    IF DictHas(d, k)
    THEN [i \in 1..Len(d) |-> IF d[i].key = k THEN [key |-> k, value |-> v] ELSE d[i]]
    ELSE Append(d, [key |-> k, value |-> v])
DictDelNothing(d, k) == d
DictDelAll(d, k) == <<>>
\* del d[k]
DictDel(d, k) == SelectSeq(d, LAMBDA e : e.key # k)
\* list(d.values())
DictValues(d) == [i \in 1..Len(d) |-> d[i].value]
DictKeys(d) == {d[i].key : i \in 1..Len(d)}
Range(s) == {s[i] : i \in 1..Len(s)}

(* ------------------------------- state --------------------------------- *)
VARIABLES
    tasks_db,          \* the dict of tasks
    task_id_counter,   \* the id counter
    req,               \* the request handled last (Spec, SpecClock)
    resp,              \* the response given to it (Spec, SpecClock)
    issued,            \* log: ids returned by create_task with 201
    deleted,           \* log: ids removed by delete_task with 204
    pc,                \* SpecConc: statement each coroutine is at
    loc,               \* SpecConc: request and locals of each coroutine
    running            \* SpecConc: coroutine the event loop executes, 0 if none

vars == <<tasks_db, task_id_counter, req, resp, issued, deleted, pc, loc, running>>
store == <<tasks_db, task_id_counter>>
conc == <<pc, loc, running>>

(* ------------------------- pydantic models ------------------------------ *)
\* class Task(BaseModel)
Task(id, description, st, created_at, updated_at) ==
    [id |-> id, description |-> description, status |-> st,
     created_at |-> created_at, updated_at |-> updated_at]

\* class TaskCreate(BaseModel): description: str, status: TaskStatus = PENDING
TaskCreateValid(body) ==
    /\ body.description # Absent
    /\ body.status \in TaskStatus \cup {Absent}
TaskCreateStatusIgnoreInput(body) == PENDING
TaskCreateStatus(body) == IF body.status = Absent THEN PENDING ELSE body.status

\* class TaskUpdate(BaseModel): status: TaskStatus
TaskUpdateValid(body) == body.status \in TaskStatus

(* ------------------------------ responses ------------------------------ *)
NoDetail == <<"", 0, "">>
\* f"Task with ID {task_id} not found"
NotFoundDetail(task_id) == <<"Task with ID ", task_id, " not found">>
Response(code, kind, tasks, detail) ==
    [status_code |-> code, kind |-> kind, tasks |-> tasks, detail |-> detail]
\* raise HTTPException(status_code=404, detail=...)
NotFound(task_id) == Response(HTTP_404_NOT_FOUND, "error", <<>>, NotFoundDetail(task_id))
\* FastAPI's answer to a body the pydantic model rejects
ValidationFailure == Response(HTTP_422_UNPROCESSABLE_ENTITY, "validation", <<>>, NoDetail)
Request(op, task_id, body) == [op |-> op, task_id |-> task_id, body |-> body]
NoRequest == Request("none", 0, NoBody)
NoResponse == Response(0, "none", <<>>, NoDetail)
NoLocals == [req |-> NoRequest, task |-> Task(0, "", PENDING, 0, 0)]

(* ----------------------- statements of the handlers -------------------- *)
NextIdFromSize(counter) == Len(tasks_db) + 1
\* task_id_counter += 1
NextId(counter) == counter + 1
\* new_task = Task(id=task_id_counter, ..., created_at=now, updated_at=now)
NewTask(id, body, now) == Task(id, body.description, TaskCreateStatus(body), now, now)
UpdatedTaskRestamp(existing_task, st, now) ==
    Task(existing_task.id, existing_task.description, st, now, now)
\* updated_task = Task(id=existing_task.id, ..., updated_at=datetime.now())
UpdatedTask(existing_task, st, now) ==
    Task(existing_task.id, existing_task.description, st, existing_task.created_at, now)

Init ==
    /\ tasks_db = <<>>
    /\ task_id_counter = 0
    /\ req = NoRequest
    /\ resp = NoResponse
    /\ issued = <<>>
    /\ deleted = <<>>
    /\ pc = [r \in 1..MaxReqs |-> "idle"]
    /\ loc = [r \in 1..MaxReqs |-> NoLocals]
    /\ running = 0

(* ----------------------- handlers, one request each -------------------- *)
\* GET /
root ==
    /\ req' = Request("root", 0, NoBody)
    /\ resp' = Response(HTTP_200_OK, "info", <<>>, NoDetail)
    /\ UNCHANGED <<store, issued, deleted, conc>>

\* POST /tasks
create_task(bodies, clock, max_id) ==
    \E body \in bodies :
        /\ req' = Request("create", 0, body)
        /\ IF ~TaskCreateValid(body)
           THEN /\ resp' = ValidationFailure
                /\ UNCHANGED <<store, issued, deleted>>
           ELSE /\ task_id_counter < max_id
                /\ task_id_counter' = NextId(task_id_counter)
                /\ \E now \in clock :
                     LET new_task == NewTask(task_id_counter', body, now)
                     IN /\ tasks_db' = DictSet(tasks_db, task_id_counter', new_task)
                        /\ resp' = Response(HTTP_201_CREATED, "task", <<new_task>>, NoDetail)
                        /\ issued' = Append(issued, new_task.id)
                /\ UNCHANGED deleted
        /\ UNCHANGED conc

\* GET /tasks
get_tasks ==
    /\ req' = Request("list", 0, NoBody)
    /\ resp' = Response(HTTP_200_OK, "list", DictValues(tasks_db), NoDetail)
    /\ UNCHANGED <<store, issued, deleted, conc>>

\* GET /tasks/{task_id}
get_task ==
    \E task_id \in TaskIds :
        /\ req' = Request("get", task_id, NoBody)
        /\ IF ~DictHas(tasks_db, task_id)
           THEN resp' = NotFound(task_id)
           ELSE resp' = Response(HTTP_200_OK, "task", <<DictGet(tasks_db, task_id)>>, NoDetail)
        /\ UNCHANGED <<store, issued, deleted, conc>>

\* PUT /tasks/{task_id}
update_task_status(bodies, clock) ==
    \E task_id \in TaskIds, body \in bodies :
        /\ req' = Request("update", task_id, body)
        /\ IF ~TaskUpdateValid(body)
           THEN /\ resp' = ValidationFailure
                /\ UNCHANGED tasks_db
           ELSE IF ~DictHas(tasks_db, task_id)
           THEN /\ resp' = NotFound(task_id)
                /\ UNCHANGED tasks_db
           ELSE \E now \in clock :
                  LET existing_task == DictGet(tasks_db, task_id)
                      updated_task == UpdatedTask(existing_task, body.status, now)
                  IN /\ tasks_db' = DictSet(tasks_db, task_id, updated_task)
                     /\ resp' = Response(HTTP_200_OK, "task", <<updated_task>>, NoDetail)
        /\ UNCHANGED <<task_id_counter, issued, deleted, conc>>

\* DELETE /tasks/{task_id}
delete_task ==
    \E task_id \in TaskIds :
        /\ req' = Request("delete", task_id, NoBody)
        /\ IF ~DictHas(tasks_db, task_id)
           THEN /\ resp' = NotFound(task_id)
                /\ UNCHANGED <<tasks_db, deleted>>
           ELSE /\ tasks_db' = DictDel(tasks_db, task_id)
                /\ resp' = Response(HTTP_204_NO_CONTENT, "empty", <<>>, NoDetail)
                /\ deleted' = Append(deleted, task_id)
        /\ UNCHANGED <<task_id_counter, issued, conc>>

\* Requests of every shape, the clock at one reading.
Next ==
    \/ root
    \/ create_task(CreateBodies, FrozenClock, MaxId)
    \/ get_tasks
    \/ get_task
    \/ update_task_status(UpdateBodies, FrozenClock)
    \/ delete_task

Spec == Init /\ [][Next]_vars

\* The same requests, each datetime.now() returning any reading of the clock.
NextClock ==
    \/ root
    \/ create_task(ClockCreateBodies, Clock, MaxClockId)
    \/ get_tasks
    \/ get_task
    \/ update_task_status(UpdateBodies, Clock)
    \/ delete_task

SpecClock == Init /\ [][NextClock]_vars

(* ------------- handlers as coroutines of one event loop ---------------- *)
\* Every handler is an `async def` whose body holds no await: once the event
\* loop resumes it, it keeps the loop until it returns or raises.  A
\* coroutine is at "idle" (no request), "pending" (request parsed, waiting
\* for the loop) or at the statement it executes next.
\* Path parameters of the requests of SpecConc: the first two ids issued.
ConcTaskIds == {1, 2}
ConcRequests ==
    {Request("create", 0, [description |-> "Write docs", status |-> Absent]),
     Request("list", 0, NoBody)}
    \cup {Request(op, id, NoBody) : op \in {"get", "delete"}, id \in ConcTaskIds}
    \cup {Request("update", id, [description |-> Absent, status |-> COMPLETED]) : id \in ConcTaskIds}
FirstStatement(op) ==
    CASE op = "create" -> "c_incr"
      [] op = "list" -> "l_return"
      [] op = "get" -> "g_check"
      [] op = "update" -> "u_check"
      [] op = "delete" -> "d_check"

\* The loop can resume r when it executes no other coroutine.
Resumable(r) == running = 0 \/ running = r
AwaitAfterStatement(r) == 0
\* The loop after a statement of r that is no await: still executing r.
AfterStatement(r) == r

Goto(r, label) ==
    /\ pc' = [pc EXCEPT ![r] = label]
    /\ running' = AfterStatement(r)
\* return, or raise: the coroutine ends and frees the loop.
Finish(r) ==
    /\ pc' = [pc EXCEPT ![r] = "idle"]
    /\ loc' = [loc EXCEPT ![r] = NoLocals]
    /\ running' = 0

\* A request arrives and is parsed; its handler waits for the loop.
arrive(r) ==
    /\ pc[r] = "idle"
    /\ \E request \in ConcRequests :
         /\ request.op = "create" => task_id_counter < MaxId
         /\ loc' = [loc EXCEPT ![r] = [req |-> request, task |-> NoLocals.task]]
    /\ pc' = [pc EXCEPT ![r] = "pending"]
    /\ UNCHANGED <<store, req, resp, issued, deleted, running>>

\* The loop starts the handler of a pending request.
start(r) ==
    /\ pc[r] = "pending"
    /\ Resumable(r)
    /\ Goto(r, FirstStatement(loc[r].req.op))
    /\ UNCHANGED <<store, req, resp, issued, deleted, loc>>

\* create_task: task_id_counter += 1
c_incr(r) ==
    /\ pc[r] = "c_incr"
    /\ Resumable(r)
    /\ task_id_counter' = NextId(task_id_counter)
    /\ Goto(r, "c_build")
    /\ UNCHANGED <<tasks_db, req, resp, issued, deleted, loc>>

\* create_task: now = datetime.now(); new_task = Task(id=task_id_counter, ...)
c_build(r) ==
    /\ pc[r] = "c_build"
    /\ Resumable(r)
    /\ \E now \in FrozenClock :
         loc' = [loc EXCEPT ![r].task = NewTask(task_id_counter, loc[r].req.body, now)]
    /\ Goto(r, "c_insert")
    /\ UNCHANGED <<store, req, resp, issued, deleted>>

\* create_task: tasks_db[task_id_counter] = new_task
c_insert(r) ==
    /\ pc[r] = "c_insert"
    /\ Resumable(r)
    /\ tasks_db' = DictSet(tasks_db, task_id_counter, loc[r].task)
    /\ Goto(r, "c_return")
    /\ UNCHANGED <<task_id_counter, req, resp, issued, deleted, loc>>

\* create_task: return new_task
c_return(r) ==
    /\ pc[r] = "c_return"
    /\ Resumable(r)
    /\ issued' = Append(issued, loc[r].task.id)
    /\ Finish(r)
    /\ UNCHANGED <<store, req, resp, deleted>>

\* get_tasks: return list(tasks_db.values())
l_return(r) ==
    /\ pc[r] = "l_return"
    /\ Resumable(r)
    /\ Finish(r)
    /\ UNCHANGED <<store, req, resp, issued, deleted>>

\* get_task, update_task_status, delete_task: if task_id not in tasks_db: raise
check(r) ==
    /\ pc[r] \in {"g_check", "u_check", "d_check"}
    /\ Resumable(r)
    /\ IF ~DictHas(tasks_db, loc[r].req.task_id)
       THEN Finish(r)
       ELSE /\ Goto(r, CASE pc[r] = "g_check" -> "g_return"
                          [] pc[r] = "u_check" -> "u_read"
                          [] pc[r] = "d_check" -> "d_del")
            /\ UNCHANGED loc
    /\ UNCHANGED <<store, req, resp, issued, deleted>>

\* get_task: return tasks_db[task_id]
g_return(r) ==
    /\ pc[r] = "g_return"
    /\ Resumable(r)
    /\ Finish(r)
    /\ UNCHANGED <<store, req, resp, issued, deleted>>

\* update_task_status: existing_task = tasks_db[task_id]  (KeyError if absent)
u_read(r) ==
    /\ pc[r] = "u_read"
    /\ Resumable(r)
    /\ IF DictHas(tasks_db, loc[r].req.task_id)
       THEN /\ loc' = [loc EXCEPT ![r].task = DictGet(tasks_db, loc[r].req.task_id)]
            /\ Goto(r, "u_build")
       ELSE Finish(r)
    /\ UNCHANGED <<store, req, resp, issued, deleted>>

\* update_task_status: updated_task = Task(..., updated_at=datetime.now())
u_build(r) ==
    /\ pc[r] = "u_build"
    /\ Resumable(r)
    /\ \E now \in FrozenClock :
         loc' = [loc EXCEPT ![r].task = UpdatedTask(loc[r].task, loc[r].req.body.status, now)]
    /\ Goto(r, "u_write")
    /\ UNCHANGED <<store, req, resp, issued, deleted>>

\* update_task_status: tasks_db[task_id] = updated_task
u_write(r) ==
    /\ pc[r] = "u_write"
    /\ Resumable(r)
    /\ tasks_db' = DictSet(tasks_db, loc[r].req.task_id, loc[r].task)
    /\ Goto(r, "u_return")
    /\ UNCHANGED <<task_id_counter, req, resp, issued, deleted, loc>>

\* update_task_status: return updated_task
u_return(r) ==
    /\ pc[r] = "u_return"
    /\ Resumable(r)
    /\ Finish(r)
    /\ UNCHANGED <<store, req, resp, issued, deleted>>

\* delete_task: del tasks_db[task_id]  (KeyError if absent)
d_del(r) ==
    /\ pc[r] = "d_del"
    /\ Resumable(r)
    /\ IF DictHas(tasks_db, loc[r].req.task_id)
       THEN /\ tasks_db' = DictDel(tasks_db, loc[r].req.task_id)
            /\ deleted' = Append(deleted, loc[r].req.task_id)
            /\ Goto(r, "d_return")
            /\ UNCHANGED loc
       ELSE /\ Finish(r)
            /\ UNCHANGED <<tasks_db, deleted>>
    /\ UNCHANGED <<task_id_counter, req, resp, issued>>

\* delete_task: return None
d_return(r) ==
    /\ pc[r] = "d_return"
    /\ Resumable(r)
    /\ Finish(r)
    /\ UNCHANGED <<store, req, resp, issued, deleted>>

NextConc ==
    \E r \in 1..MaxReqs :
        \/ arrive(r)
        \/ start(r)
        \/ c_incr(r)
        \/ c_build(r)
        \/ c_insert(r)
        \/ c_return(r)
        \/ l_return(r)
        \/ check(r)
        \/ g_return(r)
        \/ u_read(r)
        \/ u_build(r)
        \/ u_write(r)
        \/ u_return(r)
        \/ d_del(r)
        \/ d_return(r)

SpecConc == Init /\ [][NextConc]_vars

(* ============================== claims ================================= *)
StrictlyIncreasing(s) == \A i, j \in 1..Len(s) : i < j => s[i] < s[j]

\* C1: task ids are never reused. The ids create_task returned are strictly
\* increasing from 1, also across deletions; no deleted id is stored again;
\* and get(id) on an id deleted earlier answers NotFound.
C1_IdsNeverReused ==
    /\ StrictlyIncreasing(issued)
    /\ issued # <<>> => issued[1] = 1
    /\ Range(deleted) \cap DictKeys(tasks_db) = {}
    /\ (req.op = "get" /\ req.task_id \in Range(deleted)) => resp = NotFound(req.task_id)
\* A second create after the first task was deleted, then get of the deleted id.
C1_Witness ==
    /\ issued = <<1, 2>>
    /\ deleted = <<1>>
    /\ req = Request("get", 1, NoBody)
    /\ resp.status_code = HTTP_404_NOT_FOUND

\* C2: get, update and delete whose handler runs on an id never issued, or
\* issued and since deleted, answer 404 with "Task with ID {id} not found".
C2_MissingIdStep ==
    (/\ req'.op \in {"get", "update", "delete"}
     /\ req'.op = "update" => TaskUpdateValid(req'.body)
     /\ req'.task_id \notin Range(issued) \/ req'.task_id \in Range(deleted))
    => /\ resp'.status_code = HTTP_404_NOT_FOUND
       /\ resp'.detail = NotFoundDetail(req'.task_id)
       /\ resp'.status_code \notin {HTTP_200_OK, HTTP_204_NO_CONTENT}
C2_MissingIdIsNotFound == [][C2_MissingIdStep]_vars
\* delete of an id that was issued and deleted before, answered 404.
C2_Witness ==
    /\ req.op = "delete"
    /\ req.task_id \in Range(deleted)
    /\ resp = NotFound(req.task_id)
    /\ Len(issued) = 2

\* C3: update(id, S) of a stored task with any of the four statuses answers
\* 200 whatever the current status; the record returned is the record stored
\* afterwards, with status S and the id, description and created_at it had.
C3_UpdateStep ==
    (/\ req'.op = "update"
     /\ req'.body.status \in TaskStatus
     /\ DictHas(tasks_db, req'.task_id))
    => /\ resp'.status_code = HTTP_200_OK
       /\ Len(resp'.tasks) = 1
       /\ DictHas(tasks_db', req'.task_id)
       /\ DictGet(tasks_db', req'.task_id) = resp'.tasks[1]
       /\ LET old == DictGet(tasks_db, req'.task_id)
              new == resp'.tasks[1]
          IN /\ new.status = req'.body.status
             /\ new.id = old.id
             /\ new.description = old.description
             /\ new.created_at = old.created_at
C3_UpdateSetsOnlyStatus == [][C3_UpdateStep]_vars
\* An update to pending answered 200, of a task created at clock reading 0
\* and updated at reading 1.
C3_Witness ==
    /\ req.op = "update"
    /\ resp.status_code = HTTP_200_OK
    /\ resp.tasks[1].status = PENDING
    /\ resp.tasks[1].created_at = 0
    /\ resp.tasks[1].updated_at = 1

\* C4: after N successful creates and M successful deletes the dict holds,
\* and list() returns, exactly N - M records: one per id issued and not
\* deleted.
C4_ListCount ==
    LET n == Len(issued)
        m == Len(deleted)
        live == Range(issued) \ Range(deleted)
    IN /\ Len(DictValues(tasks_db)) = n - m
       /\ {t.id : t \in Range(DictValues(tasks_db))} = live
       /\ req.op = "list" =>
            /\ Len(resp.tasks) = n - m
            /\ {t.id : t \in Range(resp.tasks)} = live
\* list() after two creates, an update and one delete returns one record.
C4_Witness ==
    /\ req.op = "list"
    /\ Len(issued) = 2
    /\ Len(deleted) = 1
    /\ Len(resp.tasks) = 1
    /\ resp.tasks[1].status = COMPLETED

\* C5: every create answered 201 returns a record with created_at equal to
\* updated_at and the status of the request, pending when it gives none, and
\* that record is stored under the returned id; every create whose body is
\* valid is answered 201.
C5_CreateRecord ==
    req.op = "create" =>
        /\ TaskCreateValid(req.body) => resp.status_code = HTTP_201_CREATED
        /\ resp.status_code = HTTP_201_CREATED =>
            LET t == resp.tasks[1]
            IN /\ t.created_at = t.updated_at
               /\ t.status = (IF req.body.status = Absent THEN PENDING ELSE req.body.status)
               /\ t.description = req.body.description
               /\ DictHas(tasks_db, t.id)
               /\ DictGet(tasks_db, t.id) = t
\* A create without status at clock reading 1, answered 201 with pending.
C5_Witness ==
    /\ req.op = "create"
    /\ req.body.status = Absent
    /\ resp.status_code = HTTP_201_CREATED
    /\ resp.tasks[1].status = PENDING
    /\ resp.tasks[1].created_at = 1

\* C6: every stored task has created_at <= updated_at, and an update never
\* lowers updated_at, for whatever datetime.now() returns.
C6_TimestampStep ==
    /\ \A t \in Range(DictValues(tasks_db')) : t.created_at <= t.updated_at
    /\ (req'.op = "update" /\ resp'.status_code = HTTP_200_OK) =>
         resp'.tasks[1].updated_at >= DictGet(tasks_db, req'.task_id).updated_at
C6_TimestampsOrdered == [][C6_TimestampStep]_vars

\* C7: a request whose body fails validation is answered 400 and changes
\* nothing in the store.
C7_ValidationStep ==
    (\/ req'.op = "create" /\ ~TaskCreateValid(req'.body)
     \/ req'.op = "update" /\ ~TaskUpdateValid(req'.body))
    => /\ resp'.status_code = HTTP_400_BAD_REQUEST
       /\ UNCHANGED store
C7_ValidationIs400 == [][C7_ValidationStep]_vars

\* C8: every stored task has a non-empty description.
C8_DescriptionNonEmpty ==
    \A t \in Range(DictValues(tasks_db)) : t.description # ""

\* C9: the statements of a handler take effect as one atomic step: at most
\* one coroutine is between its first statement and its return; no id is
\* returned twice; every record created and not deleted is stored under its
\* id; and whenever a coroutine is about to read the store, every id up to
\* the counter has had its record inserted.
InFlight(r) == pc[r] \notin {"idle", "pending"}
ReadsStore(r) ==
    pc[r] \in {"c_incr", "l_return", "g_check", "g_return",
               "u_check", "u_read", "d_check", "d_del"}
CounterMatchesInserts ==
    \A k \in 1..task_id_counter : DictHas(tasks_db, k) \/ k \in Range(deleted)
C9_HandlersAtomic ==
    /\ \A r1, r2 \in 1..MaxReqs : (InFlight(r1) /\ InFlight(r2)) => r1 = r2
    /\ \A i, j \in 1..Len(issued) : issued[i] = issued[j] => i = j
    /\ \A id \in Range(issued) \ Range(deleted) :
         DictHas(tasks_db, id) /\ DictGet(tasks_db, id).id = id
    /\ \A r \in 1..MaxReqs : ReadsStore(r) => CounterMatchesInserts
\* Two creates arrived together; the first returned id 1, the second is
\* about to return id 2 while a third request waits for the loop.
C9_Witness ==
    /\ issued = <<1>>
    /\ \E r1, r2 \in 1..MaxReqs :
         /\ r1 # r2
         /\ pc[r1] = "c_return"
         /\ loc[r1].task.id = 2
         /\ pc[r2] = "pending"
    /\ DictKeys(tasks_db) = {1, 2}

\* C10: get, list, the health check and every request answered 404 leave the
\* store unchanged; a successful update or delete leaves the counter and
\* every record under another id unchanged; only create changes the counter,
\* and it leaves every existing record unchanged; and every key k of the
\* dict maps to a record with id k, 1 <= k <= task_id_counter.
OthersUnchanged(id) ==
    \A k \in (DictKeys(tasks_db) \cup DictKeys(tasks_db')) \ {id} :
        /\ DictHas(tasks_db, k)
        /\ DictHas(tasks_db', k)
        /\ DictGet(tasks_db', k) = DictGet(tasks_db, k)
KeysMatchIds ==
    \A i \in 1..Len(tasks_db) :
        /\ tasks_db[i].value.id = tasks_db[i].key
        /\ 1 <= tasks_db[i].key
        /\ tasks_db[i].key <= task_id_counter
C10_FrameStep ==
    /\ (req'.op \in {"get", "list", "root"} \/ resp'.status_code = HTTP_404_NOT_FOUND)
         => UNCHANGED store
    /\ (req'.op \in {"update", "delete"}
         /\ resp'.status_code \in {HTTP_200_OK, HTTP_204_NO_CONTENT})
         => (task_id_counter' = task_id_counter /\ OthersUnchanged(req'.task_id))
    /\ task_id_counter' # task_id_counter => req'.op = "create"
    /\ req'.op = "create" =>
         \A k \in DictKeys(tasks_db) :
             DictHas(tasks_db', k) /\ DictGet(tasks_db', k) = DictGet(tasks_db, k)
    /\ KeysMatchIds'
C10_Frame == [][C10_FrameStep]_vars
\* Task 1 was deleted with 204 while task 2 stays stored under key 2.
C10_Witness ==
    /\ req = Request("delete", 1, NoBody)
    /\ resp.status_code = HTTP_204_NO_CONTENT
    /\ DictKeys(tasks_db) = {2}
    /\ task_id_counter = 2
====
